---- MODULE Spec2Model ----
(***************************************************************************)
(* The upload-to-result pipeline of the style-transfer application:        *)
(* the Application Controller of src/App.tsx (state, handlers, what the    *)
(* render offers) and the Generation Client of                             *)
(* src/services/geminiService.ts.                                          *)
(*                                                                         *)
(* JavaScript strings are sequences of one-character strings, so that      *)
(* includes, startsWith and split are computed and not assumed.  A value   *)
(* that may be null or undefined is <<>> when absent and <<v>> when        *)
(* present.                                                                *)
(***************************************************************************)
EXTENDS Integers, Sequences, FiniteSets, TLC

\* ------------------------------------------------------------------ bounds
\* fragments concatenated into the description of a remote failure
MaxFrags == 2
\* content parts in a remote response
MaxParts == 2
\* downloads recorded
MaxDownloads == 1
\* pipelines started and not yet settled, when the handlers are driven directly
MaxInFlight == 2
\* the sides of the images given to the optimizer: 1..MaxSmall,
\* MAX_DIMENSION - MaxDelta .. MAX_DIMENSION + MaxDelta, and the first MaxMult
\* multiples of half of MAX_DIMENSION
MaxSmall == 2
MaxDelta == 1
MaxMult == 8

\* ----------------------------------------------------------- absent values
Null == <<>>

Some(v) == <<v>>

\* JavaScript truthiness of a string-or-null: null and "" are falsy
truthy(o) == o # Null /\ o[1] # <<>>

\* ------------------------------------------------------- string primitives
\* String.prototype.includes
includes(s, t) ==
  \E i \in 0..(Len(s) - Len(t)) : SubSeq(s, i + 1, i + Len(t)) = t

\* String.prototype.startsWith
startsWith(s, t) == Len(s) >= Len(t) /\ SubSeq(s, 1, Len(t)) = t

\* String.prototype.split on a one-character separator: the array of pieces
RECURSIVE split(_, _)
split(s, sep) ==
  IF \A i \in 1..Len(s) : s[i] # sep
  THEN <<s>>
  ELSE LET i == CHOOSE k \in 1..Len(s) :
                  s[k] = sep /\ \A j \in 1..(k - 1) : s[j] # sep
       IN  <<SubSeq(s, 1, i - 1)>> \o split(SubSeq(s, i + 1, Len(s)), sep)

\* ---------------------------------------------------------- string literals
\* 'Please upload a valid image file (PNG, JPG, etc.)'
MSG_VALIDATION ==
  << "P", "l", "e", "a", "s", "e", " ", "u", "p", "l", "o", "a", "d", " ",
     "a", " ", "v", "a", "l", "i", "d", " ", "i", "m", "a", "g", "e", " ",
     "f", "i", "l", "e", " ", "(", "P", "N", "G", ",", " ", "J", "P", "G",
     ",", " ", "e", "t", "c", ".", ")" >>

\* 'Failed to generate image. Please try again.'
MSG_FALLBACK ==
  << "F", "a", "i", "l", "e", "d", " ", "t", "o", " ", "g", "e", "n", "e",
     "r", "a", "t", "e", " ", "i", "m", "a", "g", "e", ".", " ", "P", "l",
     "e", "a", "s", "e", " ", "t", "r", "y", " ", "a", "g", "a", "i", "n",
     "." >>

\* 'Connection failed. The image might be too complex or large for the portal gun. Try a different photo.'
MSG_CONNECTION ==
  << "C", "o", "n", "n", "e", "c", "t", "i", "o", "n", " ", "f", "a", "i",
     "l", "e", "d", ".", " ", "T", "h", "e", " ", "i", "m", "a", "g", "e",
     " ", "m", "i", "g", "h", "t", " ", "b", "e", " ", "t", "o", "o", " ",
     "c", "o", "m", "p", "l", "e", "x", " ", "o", "r", " ", "l", "a", "r",
     "g", "e", " ", "f", "o", "r", " ", "t", "h", "e", " ", "p", "o", "r",
     "t", "a", "l", " ", "g", "u", "n", ".", " ", "T", "r", "y", " ", "a",
     " ", "d", "i", "f", "f", "e", "r", "e", "n", "t", " ", "p", "h", "o",
     "t", "o", "." >>

\* 'The image format wasn't accepted by the Council of Ricks. Try a standard JPG or PNG.'
MSG_FORMAT ==
  << "T", "h", "e", " ", "i", "m", "a", "g", "e", " ", "f", "o", "r", "m",
     "a", "t", " ", "w", "a", "s", "n", "'", "t", " ", "a", "c", "c", "e",
     "p", "t", "e", "d", " ", "b", "y", " ", "t", "h", "e", " ", "C", "o",
     "u", "n", "c", "i", "l", " ", "o", "f", " ", "R", "i", "c", "k", "s",
     ".", " ", "T", "r", "y", " ", "a", " ", "s", "t", "a", "n", "d", "a",
     "r", "d", " ", "J", "P", "G", " ", "o", "r", " ", "P", "N", "G", "." >>

\* 'Error reading file'
MSG_READ ==
  << "E", "r", "r", "o", "r", " ", "r", "e", "a", "d", "i", "n", "g", " ",
     "f", "i", "l", "e" >>

\* 'No image generated by the model. It might have returned text instead.'
MSG_NO_IMAGE ==
  << "N", "o", " ", "i", "m", "a", "g", "e", " ", "g", "e", "n", "e", "r",
     "a", "t", "e", "d", " ", "b", "y", " ", "t", "h", "e", " ", "m", "o",
     "d", "e", "l", ".", " ", "I", "t", " ", "m", "i", "g", "h", "t", " ",
     "h", "a", "v", "e", " ", "r", "e", "t", "u", "r", "n", "e", "d", " ",
     "t", "e", "x", "t", " ", "i", "n", "s", "t", "e", "a", "d", "." >>

\* 'Cannot read properties of undefined (reading 'content')'
MSG_TYPEERROR ==
  << "C", "a", "n", "n", "o", "t", " ", "r", "e", "a", "d", " ", "p", "r",
     "o", "p", "e", "r", "t", "i", "e", "s", " ", "o", "f", " ", "u", "n",
     "d", "e", "f", "i", "n", "e", "d", " ", "(", "r", "e", "a", "d", "i",
     "n", "g", " ", "'", "c", "o", "n", "t", "e", "n", "t", "'", ")" >>

\* 'Cannot read properties of undefined (reading 'parts')'
MSG_TYPEERROR_PARTS ==
  << "C", "a", "n", "n", "o", "t", " ", "r", "e", "a", "d", " ", "p", "r",
     "o", "p", "e", "r", "t", "i", "e", "s", " ", "o", "f", " ", "u", "n",
     "d", "e", "f", "i", "n", "e", "d", " ", "(", "r", "e", "a", "d", "i",
     "n", "g", " ", "'", "p", "a", "r", "t", "s", "'", ")" >>
\* the substrings the controller tests a failure's description for
RPC_FAILED == << "R", "p", "c", " ", "f", "a", "i", "l", "e", "d" >>

STATUS_500 == << "5", "0", "0" >>

XHR_ERROR == << "x", "h", "r", " ", "e", "r", "r", "o", "r" >>

STATUS_400 == << "4", "0", "0" >>

\* the prefix of an image MIME type
IMAGE_SLASH == << "i", "m", "a", "g", "e", "/" >>

\* the pieces of a data URL
DATA_COLON == << "d", "a", "t", "a", ":" >>

BASE64_COMMA == << ";", "b", "a", "s", "e", "6", "4", "," >>

PNG_DATA_URL ==
  << "d", "a", "t", "a", ":", "i", "m", "a", "g", "e", "/", "p", "n", "g",
     ";", "b", "a", "s", "e", "6", "4", "," >>

EMPTY_DATA_URL == << "d", "a", "t", "a", ":", "," >>

\* MIME types
IMAGE_PNG == << "i", "m", "a", "g", "e", "/", "p", "n", "g" >>

IMAGE_JPEG == << "i", "m", "a", "g", "e", "/", "j", "p", "e", "g" >>

APPLICATION_PDF ==
  << "a", "p", "p", "l", "i", "c", "a", "t", "i", "o", "n", "/", "p", "d",
     "f" >>

\* the base64 of the bytes a JPEG stream starts with
JPEG_MAGIC == << "/", "9", "j", "/" >>

\* base64 payloads of the files and of the remote's images
PAYLOAD_PHOTO == << "i", "V", "B", "O", "R", "w" >>

PAYLOAD_BIG == << "/", "9", "j", "/", "4", "A" >>

REMOTE_IMAGE_A == << "Q", "U", "F", "B" >>

REMOTE_IMAGE_B == << "Q", "k", "J", "C" >>

\* further fragments of failure descriptions
FRAG_40 == << "4", "0" >>

FRAG_0 == << "0" >>

FRAG_RPC_LOWER == << "r", "p", "c", " ", "f", "a", "i", "l", "e", "d" >>

\* ------------------------------------------------------------------- types
\* enum AppState
IDLE == "IDLE"

PROCESSING == "PROCESSING"

COMPLETE == "COMPLETE"

ERROR == "ERROR"

AppState == {IDLE, PROCESSING, COMPLETE, ERROR}

\* type StyleStrength
StyleStrength == {"balanced", "strong"}

\* interface GenerationResult, as useState initialises it
EmptyResult == [original |-> Null, generated |-> Null]

\* The files the user may select: name, MIME type, base64 of the bytes, and
\* what decoding the bytes as an image gives (loads = FALSE: not decodable).
Files ==
  { [name |-> "photo.png", type |-> IMAGE_PNG, payload |-> PAYLOAD_PHOTO,
     loads |-> TRUE, width |-> 800, height |-> 600],
    [name |-> "big.jpg", type |-> IMAGE_JPEG, payload |-> PAYLOAD_BIG,
     loads |-> TRUE, width |-> 2000, height |-> 1000],
    [name |-> "empty.png", type |-> IMAGE_PNG, payload |-> <<>>,
     loads |-> FALSE, width |-> 0, height |-> 0],
    [name |-> "paper.pdf", type |-> APPLICATION_PDF, payload |-> REMOTE_IMAGE_A,
     loads |-> FALSE, width |-> 0, height |-> 0],
    [name |-> "untyped", type |-> <<>>, payload |-> REMOTE_IMAGE_B,
     loads |-> FALSE, width |-> 0, height |-> 0] }

\* mutant: any file that has a type is taken for an image
isImageType_AnyTyped(type) == type # <<>>

\* file.type.startsWith('image/')
isImageType(type) == startsWith(type, IMAGE_SLASH)

\* FileReader.readAsDataURL: the data URL a successful read leaves in reader.result
readAsDataURL(file) == DATA_COLON \o file.type \o BASE64_COMMA \o file.payload

\* The ProcessedImage reader.onloadend builds from reader.result
inputImageOf(file) ==
  [base64 |-> split(readAsDataURL(file), ",")[2], mimeType |-> file.type]

\* ------------------------------------------------------- Generation Client
MAX_DIMENSION == 1024

\* mutant: Math.floor in place of Math.round
round_Floor(n, d) == n \div d

\* Math.round(n / d) for n >= 0, d > 0: halves round up
round(n, d) == (2 * n + d) \div (2 * d)

\* The canvas size img.onload computes for an image that is too large
scaledSize(width, height) ==
  IF width > height
  THEN [width |-> MAX_DIMENSION, height |-> round(height * MAX_DIMENSION, width)]
  ELSE [width |-> round(width * MAX_DIMENSION, height), height |-> MAX_DIMENSION]

\* canvas.toDataURL('image/jpeg', 0.85): an encoder the browser owns; a canvas
\* with an empty side gives "data:,"
toDataURL(base64, width, height) ==
  IF width = 0 \/ height = 0
  THEN EMPTY_DATA_URL
  ELSE DATA_COLON \o IMAGE_JPEG \o BASE64_COMMA \o JPEG_MAGIC \o base64

\* mutant: an image with a side of exactly MAX_DIMENSION is re-encoded too
optimizeImage_AtThreshold(base64, mimeType, img, hasCtx) ==
  LET original == [data |-> base64, mimeType |-> mimeType,
                   width |-> img.width, height |-> img.height]
      size == scaledSize(img.width, img.height)
  IN  IF ~img.loads THEN original
      ELSE IF ~(img.width >= MAX_DIMENSION \/ img.height >= MAX_DIMENSION)
      THEN original
      ELSE IF ~hasCtx THEN original
      ELSE [data |-> split(toDataURL(base64, size.width, size.height), ",")[2],
            mimeType |-> IMAGE_JPEG,
            width |-> size.width, height |-> size.height]

\* optimizeImage: what the promise resolves with, given what decoding the image
\* gave (img) and whether the canvas gave a 2D context (hasCtx).  width and
\* height record the size of the canvas that was encoded, or of the image when
\* the input is passed on.
optimizeImage(base64, mimeType, img, hasCtx) ==
  LET original == [data |-> base64, mimeType |-> mimeType,
                   width |-> img.width, height |-> img.height]
      size == scaledSize(img.width, img.height)
  IN  IF ~img.loads THEN original
      ELSE IF ~(img.width > MAX_DIMENSION \/ img.height > MAX_DIMENSION)
      THEN original
      ELSE IF ~hasCtx THEN original
      ELSE [data |-> split(toDataURL(base64, size.width, size.height), ",")[2],
            mimeType |-> IMAGE_JPEG,
            width |-> size.width, height |-> size.height]

\* The prompt template, as the pieces that depend on the strength and those
\* that do not
prompt(strength) ==
  << "[STYLE TRANSFER TASK]",
     "CRITICAL VISUAL FEATURES (MUST FOLLOW)",
     IF strength = "strong"
     THEN "INTENSITY LEVEL: MAXIMUM SCHWIFTINESS (High Stylization)"
     ELSE "INTENSITY LEVEL: STANDARD (Balanced)",
     IF strength = "strong"
     THEN "INSTRUCTION - MAXIMUM STYLE"
     ELSE "INSTRUCTION - BALANCED",
     "Output: Return ONLY the generated image." >>

\* config.temperature, in hundredths
temperature(strength) == IF strength = "strong" THEN 75 ELSE 65

\* The request ai.models.generateContent is called with
generateContentRequest(optimizedImage, strength) ==
  [data |-> optimizedImage.data, mimeType |-> optimizedImage.mimeType,
   prompt |-> prompt(strength), temperature |-> temperature(strength)]

\* A content part of a response: inlineData absent (a text part) or its data
Part(inlineData) == [inlineData |-> inlineData]

\* What the remote call may settle with.  kind "reject": it fails with an
\* error whose message may be absent.  kind "resolve", by shape: "noCandidates"
\* (candidates undefined), "emptyCandidates" ([]), "noContent" (the first
\* candidate has no content), "noParts" (content.parts undefined), "parts".
Rejection(message) ==
  [kind |-> "reject", message |-> message, shape |-> "none", parts |-> <<>>]

Resolution(shape, parts) ==
  [kind |-> "resolve", message |-> Null, shape |-> shape, parts |-> parts]

\* What generateRickAndMortyStyle settles with
Return(url) == [returned |-> TRUE, url |-> Some(url), message |-> Null]

Throw(message) == [returned |-> FALSE, url |-> Null, message |-> message]

\* The for loop over the parts: the data of the first part that has some
RECURSIVE firstInlineData(_)
firstInlineData(parts) ==
  IF parts = <<>> THEN Null
  ELSE IF truthy(parts[1].inlineData) THEN parts[1].inlineData
  ELSE firstInlineData(Tail(parts))

\* generateRickAndMortyStyle from the remote call's settling on: the image is
\* extracted or an error is thrown; the catch block rethrows what it caught
extractImage(response) ==
  IF response.kind = "reject" THEN Throw(response.message)
  ELSE IF response.shape = "noCandidates" THEN Throw(Some(MSG_NO_IMAGE))
  ELSE IF response.shape = "emptyCandidates" THEN Throw(Some(MSG_TYPEERROR))
  ELSE IF response.shape = "noContent" THEN Throw(Some(MSG_TYPEERROR_PARTS))
  ELSE IF response.shape = "noParts" THEN Throw(Some(MSG_NO_IMAGE))
  ELSE LET data == firstInlineData(response.parts)
       IN  IF data = Null THEN Throw(Some(MSG_NO_IMAGE))
           ELSE Return(PNG_DATA_URL \o data[1])

\* ---------------------------------------------------- Application Controller
VARIABLES
  appState,        \* useState<AppState>
  result,          \* useState<GenerationResult>
  error,           \* useState<string | null>
  styleStrength,   \* useState<StyleStrength>
  fileInputValue,  \* the value of the mounted <input type="file">, "" when empty
  inFlight,        \* the pipelines started and not settled, in order of start
  downloads,       \* the hrefs the download link was clicked with
  lastRemoteOk,    \* history: the last remote call that gave an image
  lastUpload,      \* history: the file of the upload accepted since the last reset
  visited,         \* history: the values of appState since the last accepted upload
  lastEvent        \* history: the handler or callback that ran last, and its input

vars ==
  << appState, result, error, styleStrength, fileInputValue, inFlight,
     downloads, lastRemoteOk, lastUpload, visited, lastEvent >>

\* The three pieces of state the handlers set together
Ctrl == [appState |-> appState, result |-> result, error |-> error]

Event(op, file, response, flag, stale) ==
  [op |-> op, file |-> file, response |-> response, flag |-> flag,
   stale |-> stale]

\* mutant: generateRickAndMortyStyle is called without the strength and takes
\* its default
Pipeline_DefaultStrength(file, strength) ==
  [file |-> file, strength |-> "balanced", stage |-> "reading",
   inputImage |-> Null, optimized |-> Null, request |-> Null, stale |-> FALSE]

\* A pipeline handleFileUpload starts: the file, the styleStrength its closure
\* holds, where it is (reading, optimizing, remote), the ProcessedImage and the
\* request once they exist; optimized records what optimizeImage resolved
\* with, stale that handleReset ran since its start
Pipeline(file, strength) ==
  [file |-> file, strength |-> strength, stage |-> "reading",
   inputImage |-> Null, optimized |-> Null, request |-> Null, stale |-> FALSE]

Remove(seq, i) == SubSeq(seq, 1, i - 1) \o SubSeq(seq, i + 1, Len(seq))

Visit(v, s) == IF v # <<>> /\ v[Len(v)] = s THEN v ELSE Append(v, s)

\* --- what the render offers
ErrorBannerRendered == truthy(error)

\* mutant: the Idle block, and its <input>, stays rendered while processing
IdleBlockRendered_OrProcessing == appState \in {IDLE, PROCESSING}

\* mutant: the Idle block is rendered under the error banner too
IdleBlockRendered_OrError == appState \in {IDLE, ERROR}

IdleBlockRendered == appState = IDLE

LoadingPortalRendered == appState = PROCESSING

CompleteBlockRendered == appState = COMPLETE /\ truthy(result.generated)

\* --- the state changes of the handlers
\* handleFileUpload, a file that is not an image
rejectFile(c) == [c EXCEPT !.error = Some(MSG_VALIDATION)]

\* mutant: setError(null) is missing
enterProcessing_KeepError(c) == [c EXCEPT !.appState = PROCESSING]

\* handleFileUpload, an image: the start of the try block
enterProcessing(c) == [c EXCEPT !.appState = PROCESSING, !.error = Null]

\* mutant: the preview is not stored
showOriginal_Missing(c, inputImage) == c

\* reader.onloadend: the preview of the original
showOriginal(c, inputImage) ==
  [c EXCEPT !.result = [original |-> Some(inputImage), generated |-> Null]]

\* mutant: setAppState(AppState.COMPLETE) is missing
onGenerated_StaysProcessing(c, inputImage, generatedImageUrl) ==
  [c EXCEPT !.result = [original |-> Some(inputImage),
                        generated |-> Some(generatedImageUrl)]]

\* reader.onloadend: generateRickAndMortyStyle returned generatedImageUrl
onGenerated(c, inputImage, generatedImageUrl) ==
  [c EXCEPT !.result = [original |-> Some(inputImage),
                        generated |-> Some(generatedImageUrl)],
            !.appState = COMPLETE]

\* mutant: '400' is tested before the connection failures
errorMessageOf_400First(message) ==
  LET errorMessage == IF truthy(message) THEN message[1] ELSE MSG_FALLBACK
  IN  IF includes(errorMessage, STATUS_400) THEN MSG_FORMAT
      ELSE IF \/ includes(errorMessage, RPC_FAILED)
              \/ includes(errorMessage, STATUS_500)
              \/ includes(errorMessage, XHR_ERROR)
      THEN MSG_CONNECTION
      ELSE errorMessage

\* The catch block's message for err.message
errorMessageOf(message) ==
  LET errorMessage == IF truthy(message) THEN message[1] ELSE MSG_FALLBACK
  IN  IF \/ includes(errorMessage, RPC_FAILED)
         \/ includes(errorMessage, STATUS_500)
         \/ includes(errorMessage, XHR_ERROR)
      THEN MSG_CONNECTION
      ELSE IF includes(errorMessage, STATUS_400) THEN MSG_FORMAT
      ELSE errorMessage

\* reader.onloadend: generateRickAndMortyStyle threw err
onGenerateFailed(c, message) ==
  [c EXCEPT !.error = Some(errorMessageOf(message)), !.appState = ERROR]

\* mutant: setError(null) is missing
handleReset_KeepError(c) == [c EXCEPT !.appState = IDLE, !.result = EmptyResult]

\* mutant: setResult is missing
handleReset_KeepResult(c) == [c EXCEPT !.appState = IDLE, !.error = Null]

\* handleReset
handleReset(c) ==
  [c EXCEPT !.appState = IDLE, !.result = EmptyResult, !.error = Null]

\* mutant: the link is given the original image
handleDownload_Original(c, clicked) ==
  IF truthy(c.result.generated)
  THEN Append(clicked, DATA_COLON \o c.result.original[1].mimeType
                         \o BASE64_COMMA \o c.result.original[1].base64)
  ELSE clicked

\* handleDownload: the hrefs clicked, after it
handleDownload(c, clicked) ==
  IF truthy(c.result.generated)
  THEN Append(clicked, c.result.generated[1])
  ELSE clicked

\* ------------------------------------------------------------------ inputs
Fragments ==
  { RPC_FAILED, STATUS_500, XHR_ERROR, STATUS_400,
    FRAG_40, FRAG_0, FRAG_RPC_LOWER }

\* The strings made of at most n fragments, "" among them
RECURSIVE Concats(_)
Concats(n) ==
  IF n = 0 THEN { <<>> }
  ELSE LET shorter == Concats(n - 1)
       IN  shorter \cup { f \o d : f \in Fragments, d \in shorter }

\* err.message of a failed remote call: absent, or a description
Messages == { Null } \cup { Some(d) : d \in Concats(MaxFrags) }

PartChoices ==
  { Part(Null), Part(Some(<<>>)),
    Part(Some(REMOTE_IMAGE_A)), Part(Some(REMOTE_IMAGE_B)) }

PartLists == UNION { [1..n -> PartChoices] : n \in 0..MaxParts }

Responses ==
  { Rejection(m) : m \in Messages }
    \cup { Resolution(shape, <<>>) :
             shape \in {"noCandidates", "emptyCandidates", "noContent", "noParts"} }
    \cup { Resolution("parts", parts) : parts \in PartLists }

\* One file of each kind: an image, not an image
HandlerFiles == { f \in Files : f.name \in {"photo.png", "paper.pdf"} }

\* One response of each kind: an image, no image, a failure
HandlerResponses ==
  { Resolution("parts", << Part(Null), Part(Some(REMOTE_IMAGE_A)) >>),
    Resolution("parts", << Part(Null) >>),
    Rejection(Some(STATUS_500)) }

\* ----------------------------------------------------------------- actions
Init ==
  /\ appState = IDLE
  /\ result = EmptyResult
  /\ error = Null
  /\ styleStrength = "balanced"
  /\ fileInputValue = ""
  /\ inFlight = <<>>
  /\ downloads = <<>>
  /\ lastRemoteOk = Null
  /\ lastUpload = Null
  /\ visited = <<IDLE>>
  /\ lastEvent = Event("init", Null, Null, FALSE, FALSE)

Set(c) == appState' = c.appState /\ result' = c.result /\ error' = c.error

\* The <input> lives in the Idle block: it keeps a value only while that block
\* stays rendered, and a newly mounted one is empty
InputAfter(value) == IF appState = IDLE /\ appState' = IDLE THEN value ELSE ""

\* handleFileUpload(event), file being event.target.files?.[0]
handleFileUpload(file) ==
  /\ lastEvent' = Event("handleFileUpload", file, Null, FALSE, FALSE)
  /\ IF file = Null
     THEN UNCHANGED << appState, result, error, inFlight, lastUpload, visited >>
     ELSE IF ~isImageType(file[1].type)
     THEN /\ Set(rejectFile(Ctrl))
          /\ UNCHANGED << inFlight, lastUpload, visited >>
     ELSE /\ Set(enterProcessing(Ctrl))
          /\ inFlight' = Append(inFlight, Pipeline(file[1], styleStrength))
          /\ lastUpload' = file
          /\ visited' = Visit(<<appState>>, appState')
  /\ UNCHANGED << styleStrength, downloads, lastRemoteOk >>

\* handleReset(); no request is cancelled
Reset ==
  /\ Set(handleReset(Ctrl))
  /\ fileInputValue' = ""
  /\ inFlight' = [i \in DOMAIN inFlight |-> [inFlight[i] EXCEPT !.stale = TRUE]]
  /\ lastUpload' = Null
  /\ visited' = Visit(visited, IDLE)
  /\ lastEvent' = Event("handleReset", Null, Null, FALSE, FALSE)
  /\ UNCHANGED << styleStrength, downloads, lastRemoteOk >>

\* handleDownload()
Download ==
  /\ downloads' = handleDownload(Ctrl, downloads)
  /\ lastEvent' = Event("handleDownload", Null, Null, FALSE, FALSE)
  /\ UNCHANGED << appState, result, error, styleStrength, fileInputValue,
                  inFlight, lastRemoteOk, lastUpload, visited >>

\* setStyleStrength(strength)
SetStyleStrength(strength) ==
  /\ styleStrength' = strength
  /\ lastEvent' = Event("setStyleStrength", Null, Null, FALSE, FALSE)
  /\ UNCHANGED << appState, result, error, fileInputValue, inFlight,
                  downloads, lastRemoteOk, lastUpload, visited >>

\* --- the user, through what the render offers
\* a file is chosen in the <input>: the change event fires if the value changed
ChangeFile(file) ==
  /\ IdleBlockRendered
  /\ file.name # fileInputValue
  /\ handleFileUpload(Some(file))
  /\ fileInputValue' = InputAfter(file.name)

\* the selection is withdrawn: the change event carries no file
ChangeNoFile ==
  /\ IdleBlockRendered
  /\ fileInputValue # ""
  /\ handleFileUpload(Null)
  /\ fileInputValue' = ""

\* "Try Again" in the error banner
ClickTryAgain == ErrorBannerRendered /\ Reset

\* "New Portal" in the Complete block
ClickNewPortal == CompleteBlockRendered /\ Reset

\* "Download Art" in the Complete block
ClickDownload ==
  /\ CompleteBlockRendered
  /\ Len(downloads) < MaxDownloads
  /\ Download

\* "Standard Style" and "Max Schwiftiness" in the Idle block
ClickStyle(strength) == IdleBlockRendered /\ SetStyleStrength(strength)

\* --- the callbacks of a pipeline
\* reader.onloadend, up to the call of optimizeImage.  A read that failed
\* leaves reader.result null: split throws a TypeError in the async callback,
\* which nothing catches, and the pipeline ends there.
ReaderLoadEnd(i, ok) ==
  /\ i \in DOMAIN inFlight
  /\ inFlight[i].stage = "reading"
  /\ lastEvent' =
       Event("onloadend", Some(inFlight[i].file), Null, ok, inFlight[i].stale)
  /\ IF ok
     THEN LET inputImage == inputImageOf(inFlight[i].file)
          IN  /\ Set(showOriginal(Ctrl, inputImage))
              /\ inFlight' = [inFlight EXCEPT ![i].stage = "optimizing",
                                              ![i].inputImage = Some(inputImage)]
     ELSE /\ UNCHANGED << appState, result, error >>
          /\ inFlight' = Remove(inFlight, i)
  /\ fileInputValue' = InputAfter(fileInputValue)
  /\ visited' = Visit(visited, appState')
  /\ UNCHANGED << styleStrength, downloads, lastRemoteOk, lastUpload >>

\* img.onload or img.onerror in optimizeImage, up to the call of
\* ai.models.generateContent (the application runs in a browser: window and
\* Image are defined)
ImageSettled(i, hasCtx) ==
  /\ i \in DOMAIN inFlight
  /\ inFlight[i].stage = "optimizing"
  /\ LET p == inFlight[i]
         optimizedImage ==
           optimizeImage(p.inputImage[1].base64, p.inputImage[1].mimeType,
                         [loads |-> p.file.loads, width |-> p.file.width,
                          height |-> p.file.height], hasCtx)
     IN  inFlight' =
           [inFlight EXCEPT
              ![i].stage = "remote",
              ![i].optimized = Some(optimizedImage),
              ![i].request = Some(generateContentRequest(optimizedImage, p.strength))]
  /\ lastEvent' =
       Event("optimized", Some(inFlight[i].file), Null, hasCtx, inFlight[i].stale)
  /\ UNCHANGED << appState, result, error, styleStrength, fileInputValue,
                  downloads, lastRemoteOk, lastUpload, visited >>

\* The remote call settles: generateRickAndMortyStyle returns or throws, and
\* reader.onloadend goes on after its await
RemoteSettled(i, response) ==
  /\ i \in DOMAIN inFlight
  /\ inFlight[i].stage = "remote"
  /\ LET p == inFlight[i]
         settled == extractImage(response)
     IN  /\ IF settled.returned
            THEN /\ Set(onGenerated(Ctrl, p.inputImage[1], settled.url[1]))
                 /\ lastRemoteOk' =
                      Some([input |-> p.inputImage[1], output |-> settled.url[1]])
            ELSE /\ Set(onGenerateFailed(Ctrl, settled.message))
                 /\ UNCHANGED lastRemoteOk
         /\ lastEvent' = Event("settled", Some(p.file), Some(response),
                               settled.returned, p.stale)
  /\ inFlight' = Remove(inFlight, i)
  /\ fileInputValue' = InputAfter(fileInputValue)
  /\ visited' = Visit(visited, appState')
  /\ UNCHANGED << styleStrength, downloads, lastUpload >>

\* --- the application: the user acts through the rendered controls
Next ==
  \/ \E file \in Files : ChangeFile(file)
  \/ ChangeNoFile
  \/ ClickTryAgain
  \/ ClickNewPortal
  \/ ClickDownload
  \/ \E strength \in StyleStrength : ClickStyle(strength)
  \/ \E i \in 1..MaxInFlight, ok \in BOOLEAN : ReaderLoadEnd(i, ok)
  \/ \E i \in 1..MaxInFlight, hasCtx \in BOOLEAN : ImageSettled(i, hasCtx)
  \/ \E i \in 1..MaxInFlight, response \in Responses : RemoteSettled(i, response)

Spec == Init /\ [][Next]_vars

\* The browser and the network deliver what they owe: a started read ends
\* (reader.onloadend), a decode ends (img.onload or img.onerror), and
\* generateContent resolves or rejects.  The user owes nothing.
SpecFair ==
  /\ Spec
  /\ WF_vars(\E i \in 1..MaxInFlight, ok \in BOOLEAN : ReaderLoadEnd(i, ok))
  /\ WF_vars(\E i \in 1..MaxInFlight, hasCtx \in BOOLEAN : ImageSettled(i, hasCtx))
  /\ WF_vars(\E i \in 1..MaxInFlight, response \in Responses :
               RemoteSettled(i, response))

\* --- the controller alone: its handlers called in any state, as a caller
\* other than the rendered controls may call them
CallFileUpload(file) ==
  /\ Len(inFlight) < MaxInFlight
  /\ handleFileUpload(file)
  /\ fileInputValue' = InputAfter(IF file = Null THEN "" ELSE file[1].name)

CallReset == Reset

CallDownload == Len(downloads) < MaxDownloads /\ Download

CallSetStyleStrength(strength) == SetStyleStrength(strength)

NextHandlers ==
  \/ \E file \in { Null } \cup { Some(f) : f \in HandlerFiles } : CallFileUpload(file)
  \/ CallReset
  \/ CallDownload
  \/ \E strength \in StyleStrength : CallSetStyleStrength(strength)
  \/ \E i \in 1..MaxInFlight, ok \in BOOLEAN : ReaderLoadEnd(i, ok)
  \/ \E i \in 1..MaxInFlight, hasCtx \in BOOLEAN : ImageSettled(i, hasCtx)
  \/ \E i \in 1..MaxInFlight, response \in HandlerResponses : RemoteSettled(i, response)

SpecHandlers == Init /\ [][NextHandlers]_vars

\* --- the optimizer: images of many sizes are uploaded and optimized
Sides ==
  (1..MaxSmall)
    \cup ((MAX_DIMENSION - MaxDelta)..(MAX_DIMENSION + MaxDelta))
    \cup { k * (MAX_DIMENSION \div 2) : k \in 1..MaxMult }

\* An image of every size and of two types, and a file that does not decode
OptimizerFiles ==
  { [name |-> "sized", type |-> type, payload |-> PAYLOAD_PHOTO,
     loads |-> TRUE, width |-> width, height |-> height] :
      type \in {IMAGE_PNG, IMAGE_JPEG}, width \in Sides, height \in Sides }
    \cup { f \in Files : f.name = "empty.png" }

NextOptimizer ==
  \/ \E file \in OptimizerFiles : ChangeFile(file)
  \/ \E ok \in {TRUE} : ReaderLoadEnd(1, ok)
  \/ \E hasCtx \in BOOLEAN : ImageSettled(1, hasCtx)

SpecOptimizer == Init /\ [][NextOptimizer]_vars

\* ------------------------------------------------------------------ claims
\* The ProcessedImage of a file, from the file itself
ImageOfFile(file) == [base64 |-> file.payload, mimeType |-> file.type]

\* The user can select a valid image file now
UploadPermitted ==
  ENABLED (\E file \in Files : isImageType(file.type) /\ ChangeFile(file))

C2_StrictVisits ==
  lastEvent.op = "settled"
    => visited = IF lastEvent.flag THEN << IDLE, PROCESSING, COMPLETE >>
                                   ELSE << IDLE, PROCESSING, ERROR >>

C2_Witness ==
  /\ lastEvent.op = "settled"
  /\ lastEvent.flag
  /\ appState = COMPLETE
  /\ visited = << IDLE, PROCESSING, COMPLETE >>

\* C3: selecting a file whose MIME type does not start with "image/" leaves
\* the state Idle, starts no pipeline, leaves result unchanged and sets the
\* validation message.
C3_NonImageRejected ==
  [][ ( /\ lastEvent'.op = "handleFileUpload"
        /\ lastEvent'.file # Null
        /\ ~startsWith(lastEvent'.file[1].type, IMAGE_SLASH) )
      => ( /\ appState = IDLE
           /\ appState' = IDLE
           /\ inFlight' = inFlight
           /\ result' = result
           /\ error' = Some(MSG_VALIDATION) ) ]_vars

C3_Witness ==
  /\ lastEvent.op = "handleFileUpload"
  /\ lastEvent.file # Null
  /\ lastEvent.file[1].type = APPLICATION_PDF
  /\ appState = IDLE
  /\ error = Some(MSG_VALIDATION)

\* C4: reset from Complete or Error gives Idle with no original, no generated
\* image and no error message, and resetting that state again changes nothing.
C4_ResetClean ==
  [][ (lastEvent'.op = "handleReset" /\ appState \in {COMPLETE, ERROR})
      => ( /\ appState' = IDLE
           /\ result' = EmptyResult
           /\ error' = Null
           /\ handleReset(Ctrl') = Ctrl' ) ]_vars

C4_Witness ==
  /\ lastEvent.op = "handleReset"
  /\ visited = << IDLE, PROCESSING, COMPLETE, IDLE >>
  /\ Ctrl = [appState |-> IDLE, result |-> EmptyResult, error |-> Null]

\* C5: the message shown for a failed generation follows the priority order:
\* no description (absent or empty) gives the fallback; else "Rpc failed",
\* "500" or "xhr error" gives the connection message, also with "400" in the
\* description; else "400" gives the format message; else the description.
C5_Expected(message) ==
  IF message = Null \/ message[1] = <<>> THEN MSG_FALLBACK
  ELSE IF \E t \in {RPC_FAILED, STATUS_500, XHR_ERROR} : includes(message[1], t)
  THEN MSG_CONNECTION
  ELSE IF includes(message[1], STATUS_400) THEN MSG_FORMAT
  ELSE message[1]

C5_Classification ==
  (lastEvent.op = "settled" /\ lastEvent.response[1].kind = "reject")
    => error = Some(C5_Expected(lastEvent.response[1].message))

C5_Witness ==
  /\ lastEvent.op = "settled"
  /\ lastEvent.response[1].kind = "reject"
  /\ lastEvent.response[1].message = Some(STATUS_400 \o STATUS_500)
  /\ error = Some(MSG_CONNECTION)

\* C6: when the read of the selected file fails, the state becomes Error with
\* the message "Error reading file".
C6_ReadFailureSurfaced ==
  (lastEvent.op = "onloadend" /\ ~lastEvent.flag)
    => (appState = ERROR /\ error = Some(MSG_READ))

\* C7: a generated image is held only together with the original of the
\* upload accepted since the last reset, and the last remote call that gave an
\* image gave this one for this original.
C7_ResultPair ==
  result.generated # Null
    => /\ lastUpload # Null
       /\ result.original = Some(ImageOfFile(lastUpload[1]))
       /\ lastRemoteOk = Some([input |-> ImageOfFile(lastUpload[1]),
                               output |-> result.generated[1]])

C7_Witness ==
  /\ result.generated # Null
  /\ downloads # <<>>
  /\ downloads[1] # result.generated[1]
  /\ lastUpload[1].name = "big.jpg"

\* C8: at most one pipeline is in flight.
C8_OneInFlight == Len(inFlight) <= 1

C8_Witness ==
  /\ Len(inFlight) = 1
  /\ inFlight[1].stage = "remote"
  /\ appState = PROCESSING
  /\ downloads # <<>>

\* C9, as stated: a valid image can be selected in Idle and in Error, and in
\* no other state.
C9_UploadInIdleAndError ==
  UploadPermitted <=> appState \in {IDLE, ERROR}

\* C9, amended: a valid image can be selected in Idle and in no other state,
\* and Error is left only by handleReset, to Idle.
C9_UploadOnlyInIdle ==
  /\ [](UploadPermitted <=> appState = IDLE)
  /\ [][ (appState = ERROR /\ appState' # ERROR)
         => (appState' = IDLE /\ lastEvent'.op = "handleReset") ]_vars

C9_Witness ==
  /\ appState = ERROR
  /\ ErrorBannerRendered
  /\ ~UploadPermitted

\* C10: a download happens only in Complete with a generated image, records
\* that image and changes nothing else; in any other state handleDownload
\* does nothing.
C10_DownloadFrame ==
  /\ [][ lastEvent'.op = "handleDownload"
         => ( /\ appState = COMPLETE
              /\ result.generated # Null
              /\ downloads' = Append(downloads, result.generated[1])
              /\ UNCHANGED << appState, result, error, styleStrength >> ) ]_vars
  /\ [](appState # COMPLETE => handleDownload(Ctrl, downloads) = downloads)

C10_Witness ==
  /\ lastEvent.op = "handleDownload"
  /\ appState = COMPLETE
  /\ Len(downloads) = 1
  /\ downloads[1] = result.generated[1]

\* The data of the first part, in order, that holds inline image data: what
\* a response gives when read as its list of parts (no list: no parts)
RECURSIVE C11_FirstImage(_)
C11_FirstImage(parts) ==
  IF parts = <<>> THEN Null
  ELSE IF parts[1].inlineData # Null /\ parts[1].inlineData[1] # <<>>
  THEN parts[1].inlineData
  ELSE C11_FirstImage(Tail(parts))

\* C11: a remote call that resolved gives the first part with inline image
\* data as a PNG data URL, and for every response without such a part (text
\* only, no parts, no content, no candidate) fails with the no-image error.
C11_FirstImageOrNoImage ==
  (lastEvent.op = "settled" /\ lastEvent.response[1].kind = "resolve")
    => LET image == C11_FirstImage(lastEvent.response[1].parts)
       IN  IF image # Null
           THEN /\ appState = COMPLETE
                /\ result.generated = Some(PNG_DATA_URL \o image[1])
           ELSE /\ appState = ERROR
                /\ error = Some(MSG_NO_IMAGE)

\* The pipeline whose image the optimizer has just settled
Optimized(p) == p.stage = "remote" /\ lastEvent.op = "optimized"

TooLarge(file) == file.width > MAX_DIMENSION \/ file.height > MAX_DIMENSION

Longer(file) == IF file.width > file.height THEN file.width ELSE file.height

Shorter(file) == IF file.width > file.height THEN file.height ELSE file.width

\* Scaled to MAX_DIMENSION on its longer side, the image has no pixel left on
\* its shorter side: the canvas is empty and cannot be encoded
EncodesNothing(file) == 2 * MAX_DIMENSION * Shorter(file) < Longer(file)

PassedOn(p) ==
  /\ p.optimized[1].data = p.file.payload
  /\ p.optimized[1].mimeType = p.file.type
  /\ p.request[1].data = p.file.payload
  /\ p.request[1].mimeType = p.file.type

\* C12: when the image does not load, the canvas gives no 2D context or the
\* re-encoding fails, the optimizer resolves with the input payload and MIME
\* type unchanged.
C12_FailuresAbsorbed ==
  \A i \in DOMAIN inFlight :
    LET p == inFlight[i]
    IN  ( /\ Optimized(p)
          /\ \/ ~p.file.loads
             \/ TooLarge(p.file) /\ ~lastEvent.flag
             \/ TooLarge(p.file) /\ EncodesNothing(p.file) )
        => PassedOn(p)

\* C13: an image with a side above 1024 that is decoded and drawn leaves the
\* optimizer as image/jpeg with its longer side at exactly 1024 and its shorter
\* side at the nearest integer to the proportional value.
C13_ScaledToThreshold ==
  \A i \in DOMAIN inFlight :
    LET p == inFlight[i]
        out == p.optimized[1]
        short == IF p.file.width > p.file.height THEN out.height ELSE out.width
        long == IF p.file.width > p.file.height THEN out.width ELSE out.height
        diff == MAX_DIMENSION * Shorter(p.file) - short * Longer(p.file)
    IN  (Optimized(p) /\ p.file.loads /\ TooLarge(p.file) /\ lastEvent.flag)
        => /\ out.mimeType = IMAGE_JPEG
           /\ p.request[1].mimeType = IMAGE_JPEG
           /\ long = MAX_DIMENSION
           /\ short <= MAX_DIMENSION
           /\ 2 * diff <= Longer(p.file)
           /\ 2 * (0 - diff) <= Longer(p.file)

C13_Witness ==
  /\ inFlight # <<>>
  /\ Optimized(inFlight[1])
  /\ lastEvent.flag
  /\ inFlight[1].file.width = 2 * MAX_DIMENSION
  /\ inFlight[1].file.height = MAX_DIMENSION
  /\ inFlight[1].optimized[1].width = MAX_DIMENSION
  /\ inFlight[1].optimized[1].height = MAX_DIMENSION \div 2
  /\ inFlight[1].optimized[1].mimeType = IMAGE_JPEG

\* C14: an image whose width and height are both at most 1024 leaves the
\* optimizer with the same payload and the same MIME type.
C14_SmallUnchanged ==
  \A i \in DOMAIN inFlight :
    LET p == inFlight[i]
    IN  (Optimized(p) /\ p.file.loads /\ ~TooLarge(p.file)) => PassedOn(p)

C14_Witness ==
  /\ inFlight # <<>>
  /\ Optimized(inFlight[1])
  /\ lastEvent.flag
  /\ inFlight[1].file.width = MAX_DIMENSION
  /\ inFlight[1].file.height = MAX_DIMENSION
  /\ inFlight[1].file.type = IMAGE_JPEG
  /\ PassedOn(inFlight[1])

\* C15: the prompt and the temperature of a request are those of the style
\* strength selected when the upload was made, 0.75 for strong and 0.65 for
\* balanced (in hundredths), and depend on nothing else.
C15_PromptFromStrength ==
  \A i \in DOMAIN inFlight :
    inFlight[i].stage = "remote"
      => /\ inFlight[i].strength = styleStrength
         /\ inFlight[i].request[1].temperature =
              (IF styleStrength = "strong" THEN 75 ELSE 65)
         /\ inFlight[i].request[1].prompt = prompt(styleStrength)
         /\ prompt("strong") # prompt("balanced")

C15_Witness ==
  /\ inFlight # <<>>
  /\ inFlight[1].stage = "remote"
  /\ styleStrength = "strong"
  /\ inFlight[1].file.name = "big.jpg"
  /\ inFlight[1].request[1].temperature = 75

\* C16: while a generation is under way (optimizeImage called, or the remote
\* request sent) the state is Processing, original is the image of the file of
\* that generation and generated is absent.
C16_OriginalBeforeRequest ==
  \A i \in DOMAIN inFlight :
    inFlight[i].stage \in {"optimizing", "remote"}
      => /\ appState = PROCESSING
         /\ result.original = Some(ImageOfFile(inFlight[i].file))
         /\ result.generated = Null

C16_Witness ==
  /\ inFlight # <<>>
  /\ inFlight[1].stage = "remote"
  /\ inFlight[1].file.name = "big.jpg"
  /\ appState = PROCESSING
  /\ result.original = Some(ImageOfFile(inFlight[1].file))

\* C17: in Complete generated and original are present and the error message
\* is absent; in Error the error message is present and generated is absent;
\* in Processing the error message is absent.
C17_StateInvariant ==
  /\ appState = COMPLETE
       => result.generated # Null /\ result.original # Null /\ error = Null
  /\ appState = ERROR => truthy(error) /\ result.generated = Null
  /\ appState = PROCESSING => error = Null

C17_Witness ==
  /\ appState = ERROR
  /\ error = Some(MSG_CONNECTION)
  /\ result.original # Null
  /\ result.generated = Null

\* What the render offers the user
ResetOffered == ENABLED ClickTryAgain \/ ENABLED ClickNewPortal

UploadOffered == ENABLED (\E file \in Files : ChangeFile(file) \/ ChangeNoFile)

StyleOffered == ENABLED (\E strength \in StyleStrength : ClickStyle(strength))

DownloadOffered == ENABLED ClickDownload

\* C18: while Processing no reset, upload, style or download control is
\* offered and only the callbacks of the pipeline take steps; reset is offered
\* exactly when an error message is present or the state is Complete, upload
\* and the style selector exactly in Idle.
C18_ProcessingOffersNothing ==
  /\ [](appState = PROCESSING
          => ~ResetOffered /\ ~UploadOffered /\ ~StyleOffered /\ ~DownloadOffered)
  /\ [](ResetOffered <=> (error # Null \/ appState = COMPLETE))
  /\ [](UploadOffered <=> appState = IDLE)
  /\ [](StyleOffered <=> appState = IDLE)
  /\ [][ appState = PROCESSING
         => lastEvent'.op \in {"onloadend", "optimized", "settled"} ]_vars

C18_Witness ==
  /\ appState = PROCESSING
  /\ inFlight # <<>>
  /\ inFlight[1].stage = "remote"
  /\ ~ResetOffered
  /\ ~UploadOffered

\* C19: when the read ends and the remote call settles, every Processing
\* state is followed by Complete or Error, and in Complete and in Error the
\* reset is offered.
C19_ProcessingEnds ==
  /\ (appState = PROCESSING) ~> (appState \in {COMPLETE, ERROR})
  /\ [](appState \in {COMPLETE, ERROR} => ResetOffered)

\* the part of C19 that holds: once optimizeImage has been called, the
\* generation ends in Complete or Error
C19_FromOptimizing ==
  (\E i \in DOMAIN inFlight : inFlight[i].stage \in {"optimizing", "remote"})
    ~> (appState \in {COMPLETE, ERROR})
====
